---- MODULE Spec2Model ----
(***************************************************************************)
(* Model of xoscar/backends/communication/dummy.py: the in-process         *)
(* transport made of DummyChannel (two crossed asyncio queues sharing one  *)
(* closed event), DummyServer (registry keyed by address, a set of accept  *)
(* tasks, a weak set of accepted channels) and DummyClient.                *)
(*                                                                         *)
(* Scheduling is asyncio's: one step of the model is what runs between two *)
(* suspension points of a coroutine.  send(), close(), create(), connect() *)
(* never suspend and are single steps; recv() suspends only on an empty    *)
(* queue; stop() suspends in gather() while its close tasks run.           *)
(***************************************************************************)
EXTENDS Integers, Sequences, FiniteSets, TLC

\* ---------------------------------------------------------------- bounds
MaxObjects == 3     \* servers constructed, channel pairs allocated, join() calls suspended
MaxTraffic == 3     \* channel pairs allocated plus messages accepted from callers
NumAddrs == 1       \* distinct dummy:// addresses

Servers == 1..MaxObjects
Conns == 1..MaxObjects
\* The k-th message accepted in a run is the value k: all messages differ,
\* so any reordering, duplication or loss shows in the values received.
Msgs == 1..MaxTraffic
None == 0

\* An address is <<scheme, token>>: urlparse(address).scheme is its first part.
scheme == "dummy"
DummyAddrs == {<<scheme, n>> : n \in 0..(NumAddrs - 1)}
OtherAddrs == {<<"tcp", 0>>}
Addrs == DummyAddrs \cup OtherAddrs
\* Callers pass addresses of the dummy scheme.
CallAddrs == DummyAddrs
urlparse_scheme(address) == address[1]
DEFAULT_DUMMY_ADDRESS == <<scheme, 0>>

\* The connection handlers a caller may pass as handle_channel.
\*   "echo": while True: m = await ch.recv(); await ch.send(m)
\*   "once": m = await ch.recv(); await ch.send(m); return
Handlers == {"echo", "once"}

VARIABLES
    address_to_instances, \* DummyServer._address_to_instances: address -> server or None
    nservers,             \* number of DummyServer objects constructed so far
    s_address,            \* server.address
    s_handler,            \* server.channel_handler
    s_closed,             \* server._closed.is_set()
    s_channels,           \* server._channels (weak set), as connection ids
    s_tasks,              \* server._tasks, as connection ids
    s_alive,              \* the server object has not been garbage collected
    gather,               \* per server: channel.close() tasks of a running stop()
    joiner,               \* per server: a caller's join(): "idle", or suspended
                          \* without a timeout ("wait") or with one ("timed")
    nconns,               \* number of channel pairs allocated so far
    c_server,             \* the server a connection was made to
    c_kind,               \* "task": accepted by connect; "direct": on_connected awaited by a caller
    closed,               \* the asyncio.Event shared by the two channels of a pair
    q1,                   \* client channel's _in_queue, server channel's _out_queue
    q2,                   \* client channel's _out_queue, server channel's _in_queue
    task,                 \* state of the coroutine running on_connected
    must_cancel,          \* task.cancel() was requested and not yet delivered
    invoked,              \* channel_handler has been called with this server channel
    client_task,          \* client._task is not None
    reader,               \* a caller's recv() on the client channel: "idle" or "waiting"
    sent_c, rcvd_s,       \* history: accepted by client send / returned by server recv
    sent_s, rcvd_c,       \* history: accepted by server send / returned by client recv
    last                  \* the exception the call made by the latest step raised, the
                          \* server an effect-free create returned, or the return of
                          \* a join(); else NoOutcome

srv_vars == <<address_to_instances, nservers, s_address, s_handler, s_closed,
              s_channels, s_tasks, s_alive, gather, joiner>>
chan_vars == <<closed, q1, q2>>
hist_vars == <<sent_c, rcvd_s, sent_s, rcvd_c>>
conn_vars == <<nconns, c_server, c_kind, task, must_cancel, invoked, client_task, reader>>
vars == <<srv_vars, chan_vars, hist_vars, conn_vars, last>>

\* Task states.  "pending": created, first step not run.  "recv": suspended in
\* the handler's await channel.recv().  The rest are completed tasks.
DoneStates == {"finished", "cancelled", "ServerClosed", "ChannelClosed"}
TaskStates == {"none", "pending", "recv"} \cup DoneStates
done(c) == task[c] \in DoneStates

core_vars == <<srv_vars, chan_vars, hist_vars, conn_vars>>
NoOutcome == [op |-> "none", res |-> "ok", val |-> None]

\* No caller is in the middle of handling what its call raised.  A call that
\* raises and the caller's handling of it are one stretch of one coroutine
\* without a suspension point, so no other step comes in between.
Quiet == last = NoOutcome
Outcome(op, res, val) == [op |-> op, res |-> res, val |-> val]

Init ==
    /\ address_to_instances = [a \in DummyAddrs |-> None]
    /\ nservers = 0
    /\ s_address = [s \in Servers |-> DEFAULT_DUMMY_ADDRESS]
    /\ s_handler = [s \in Servers |-> "echo"]
    /\ s_closed = [s \in Servers |-> FALSE]
    /\ s_channels = [s \in Servers |-> {}]
    /\ s_tasks = [s \in Servers |-> {}]
    /\ s_alive = [s \in Servers |-> FALSE]
    /\ gather = [s \in Servers |-> {}]
    /\ joiner = [s \in Servers |-> "idle"]
    /\ nconns = 0
    /\ c_server = [c \in Conns |-> None]
    /\ c_kind = [c \in Conns |-> "task"]
    /\ closed = [c \in Conns |-> FALSE]
    /\ q1 = [c \in Conns |-> <<>>]
    /\ q2 = [c \in Conns |-> <<>>]
    /\ task = [c \in Conns |-> "none"]
    /\ must_cancel = [c \in Conns |-> FALSE]
    /\ invoked = [c \in Conns |-> FALSE]
    /\ client_task = [c \in Conns |-> FALSE]
    /\ reader = [c \in Conns |-> "idle"]
    /\ sent_c = [c \in Conns |-> <<>>]
    /\ rcvd_s = [c \in Conns |-> <<>>]
    /\ sent_s = [c \in Conns |-> <<>>]
    /\ rcvd_c = [c \in Conns |-> <<>>]
    /\ last = NoOutcome

\* Messages accepted so far by send() on the client channels 1..n.
RECURSIVE nsent(_)
nsent(n) == IF n = 0 THEN 0 ELSE Len(sent_c[n]) + nsent(n - 1)

\* What a run has made so far, and whether it may make one thing more.
joining == {s \in Servers : joiner[s] # "idle"}
objects == nservers + nconns + Cardinality(joining)
traffic == nconns + nsent(nconns)
room_server == objects < MaxObjects
room_join == objects < MaxObjects
room_conn == objects < MaxObjects /\ traffic < MaxTraffic
room_send == traffic < MaxTraffic

\* ------------------------------------------------------------ DummyServer

\* DummyServer.get_instance: the weak-value dictionary lookup; a missing key
\* raises KeyError (it never returns None).
get_instance(address) ==
    IF address_to_instances[address] = None
    THEN [res |-> "KeyError", server |-> None]
    ELSE [res |-> "ok", server |-> address_to_instances[address]]

\* DummyServer.stopped
stopped(s) == s_closed[s]

\* Mutant of create_reuses: a stopped instance is reused too.
create_reuses_stopped(address) == get_instance(address).res = "ok"

\* Mutant of create_reuses: an existing instance is never reused.
create_never_reuses(address) == FALSE

\* The try block of create: an existing, non-stopped instance is reused;
\* KeyError (missing, or raised for a stopped one) leads to construction.
create_reuses(address) ==
    /\ get_instance(address).res = "ok"
    /\ ~stopped(get_instance(address).server)

\* Mutant of create: a stopped instance is opened again and returned.
create_reopens(address, handle_channel) ==
    /\ Quiet
    /\ IF urlparse_scheme(address) # scheme
       THEN /\ UNCHANGED core_vars
            /\ last' = Outcome("create", "ValueError", None)
       ELSE IF get_instance(address).res = "ok"
       THEN /\ s_closed' = [s_closed EXCEPT ![get_instance(address).server] = FALSE]
            /\ UNCHANGED <<address_to_instances, nservers, s_address, s_handler, joiner,
                           s_channels, s_tasks, s_alive, gather, chan_vars, hist_vars,
                           conn_vars>>
            /\ last' = Outcome("create", "ok", get_instance(address).server)
       ELSE /\ room_server
            /\ LET server == nservers + 1 IN
               /\ nservers' = server
               /\ s_address' = [s_address EXCEPT ![server] = address]
               /\ s_handler' = [s_handler EXCEPT ![server] = handle_channel]
               /\ s_closed' = [s_closed EXCEPT ![server] = FALSE]
               /\ s_channels' = [s_channels EXCEPT ![server] = {}]
               /\ s_tasks' = [s_tasks EXCEPT ![server] = {}]
               /\ s_alive' = [s_alive EXCEPT ![server] = TRUE]
               /\ address_to_instances' = [address_to_instances EXCEPT ![address] = server]
            /\ UNCHANGED <<gather, joiner, chan_vars, hist_vars, conn_vars>>
            /\ last' = NoOutcome

\* DummyServer.create(config) with config = {address, handle_channel}.  The
\* coroutine has no suspension point: it is one step.
create(address, handle_channel) ==
    /\ Quiet
    /\ IF urlparse_scheme(address) # scheme
       THEN /\ UNCHANGED core_vars
            /\ last' = Outcome("create", "ValueError", None)
       ELSE IF create_reuses(address)
       THEN /\ UNCHANGED core_vars
            /\ last' = Outcome("create", "ok", get_instance(address).server)
       ELSE /\ room_server
            /\ LET server == nservers + 1 IN
               /\ nservers' = server
               /\ s_address' = [s_address EXCEPT ![server] = address]
               /\ s_handler' = [s_handler EXCEPT ![server] = handle_channel]
               /\ s_closed' = [s_closed EXCEPT ![server] = FALSE]
               /\ s_channels' = [s_channels EXCEPT ![server] = {}]
               /\ s_tasks' = [s_tasks EXCEPT ![server] = {}]
               /\ s_alive' = [s_alive EXCEPT ![server] = TRUE]
               /\ address_to_instances' = [address_to_instances EXCEPT ![address] = server]
            /\ UNCHANGED <<gather, joiner, chan_vars, hist_vars, conn_vars>>
            /\ last' = NoOutcome

\* --------------------------------------------------------------- asyncio

\* asyncio.Queue.put_nowait on an unbounded queue.
put_nowait(queue, item) == Append(queue, item)

\* Mutant of get_nowait: the newest item is taken.
get_nowait_newest(queue) ==
    [item |-> queue[Len(queue)], rest |-> SubSeq(queue, 1, Len(queue) - 1)]

\* asyncio.Queue.get_nowait on a non-empty queue: the oldest item.
get_nowait(queue) == [item |-> Head(queue), rest |-> Tail(queue)]

\* ----------------------------------------------------------- DummyChannel

\* Mutant of send: the closed check is missing.
send_unchecked(is_closed, out_queue, message) ==
    [res |-> "ok", out |-> put_nowait(out_queue, message)]

\* DummyChannel.send on a channel whose shared event is is_closed and whose
\* _out_queue is out_queue.
send(is_closed, out_queue, message) ==
    IF is_closed
    THEN [res |-> "ChannelClosed", out |-> out_queue]
    ELSE [res |-> "ok", out |-> put_nowait(out_queue, message)]

\* Mutant of recv: the closed check is missing.
recv_unchecked(is_closed, in_queue) ==
    IF in_queue = <<>>
    THEN [res |-> "suspend", item |-> None, rest |-> in_queue]
    ELSE [res |-> "ok", item |-> get_nowait(in_queue).item,
          rest |-> get_nowait(in_queue).rest]

\* DummyChannel.recv up to its first possible suspension: the closed check,
\* then Queue.get, which returns at once from a non-empty queue and suspends
\* on an empty one.
recv(is_closed, in_queue) ==
    IF is_closed
    THEN [res |-> "ChannelClosed", item |-> None, rest |-> in_queue]
    ELSE IF in_queue = <<>>
    THEN [res |-> "suspend", item |-> None, rest |-> in_queue]
    ELSE [res |-> "ok", item |-> get_nowait(in_queue).item,
          rest |-> get_nowait(in_queue).rest]

\* Mutant of close: the event is flipped instead of set.
close_toggles(is_closed) == ~is_closed

\* DummyChannel.close: sets the shared event.
close(is_closed) == TRUE

\* The server channel of connection c as the handler sees it.
server_channel(c) ==
    [closed |-> closed[c], inq |-> q2[c], outq |-> q1[c],
     rcvd |-> rcvd_s[c], sent |-> sent_s[c], state |-> task[c]]

\* The handler coroutine from one point to its next suspension or its end.
\* handler_recv: the handler calls channel.recv().  handler_got: recv()
\* returned message; the handler sends it back, then loops or returns.
RECURSIVE handler_recv(_, _)
RECURSIVE handler_got(_, _, _)
handler_recv(h, ch) ==
    LET r == recv(ch.closed, ch.inq) IN
    IF r.res = "ChannelClosed" THEN [ch EXCEPT !.state = "ChannelClosed"]
    ELSE IF r.res = "suspend" THEN [ch EXCEPT !.state = "recv"]
    ELSE handler_got(h, [ch EXCEPT !.inq = r.rest, !.rcvd = Append(@, r.item)], r.item)

handler_got(h, ch, message) ==
    LET r == send(ch.closed, ch.outq, message) IN
    IF r.res = "ChannelClosed" THEN [ch EXCEPT !.state = "ChannelClosed"]
    ELSE LET ch2 == [ch EXCEPT !.outq = r.out, !.sent = Append(@, message)] IN
         IF h = "once" THEN [ch2 EXCEPT !.state = "finished"]
         ELSE handler_recv(h, ch2)

\* Queue.get resumed by a put: it returns get_nowait() without looking at the
\* closed event again.
handler_resume(h, ch) ==
    LET g == get_nowait(ch.inq) IN
    handler_got(h, [ch EXCEPT !.inq = g.rest, !.rcvd = Append(@, g.item)], g.item)

\* Writes the server channel of c back after a step of its handler.
StoreChannel(c, ch) ==
    /\ q2' = [q2 EXCEPT ![c] = ch.inq]
    /\ q1' = [q1 EXCEPT ![c] = ch.outq]
    /\ rcvd_s' = [rcvd_s EXCEPT ![c] = ch.rcvd]
    /\ sent_s' = [sent_s EXCEPT ![c] = ch.sent]
    /\ task' = [task EXCEPT ![c] = ch.state]

\* Mutant of on_connected_check: a stopped server accepts.
on_connected_unchecked(s) == "ok"

\* The first lines of on_connected: a stopped server raises ServerClosed.
on_connected_check(s) == IF s_closed[s] THEN "ServerClosed" ELSE "ok"

\* DummyServer.on_connected(channel) for the server channel of connection c,
\* from its first line to the handler's first suspension or end.  is_closed
\* and the queues are those of the channel passed in.
on_connected(s, c, ch) ==
    IF on_connected_check(s) # "ok"
    THEN /\ task' = [task EXCEPT ![c] = "ServerClosed"]
         /\ UNCHANGED <<s_channels, invoked, q1, q2, hist_vars>>
    ELSE /\ s_channels' = [s_channels EXCEPT ![s] = @ \cup {c}]
         /\ invoked' = [invoked EXCEPT ![c] = TRUE]
         /\ StoreChannel(c, handler_recv(s_handler[s], ch))
         /\ UNCHANGED <<sent_c, rcvd_c>>

\* Mutant of cancel: nothing is cancelled.
cancel_nothing(cs) == must_cancel

\* Task.cancel(): no effect on a completed task; otherwise CancelledError is
\* thrown into the coroutine at the task's next step.
cancel(cs) ==
    [c \in Conns |-> IF c \in cs /\ ~done(c) /\ task[c] # "none"
                     THEN TRUE ELSE must_cancel[c]]

\* Mutant of stop: no close() is requested on the tracked channels.
stop_without_close(s) ==
    /\ Quiet
    /\ s \in 1..nservers
    /\ s_alive[s]
    /\ gather[s] = {}
    /\ s_closed' = [s_closed EXCEPT ![s] = TRUE]
    /\ must_cancel' = [c \in Conns |->
                          IF c \in s_tasks[s] /\ ~done(c) /\ task[c] # "none"
                          THEN TRUE ELSE must_cancel[c]]
    /\ UNCHANGED <<address_to_instances, nservers, s_address, s_handler, joiner, s_channels,
                   s_tasks, s_alive, gather, chan_vars, hist_vars, nconns, c_server,
                   c_kind, task, invoked, client_task, reader>>
    /\ last' = NoOutcome

\* Mutant of stop: the tasks are left alone.
stop_without_cancel(s) ==
    /\ Quiet
    /\ s \in 1..nservers
    /\ s_alive[s]
    /\ gather[s] = {}
    /\ s_closed' = [s_closed EXCEPT ![s] = TRUE]
    /\ gather' = [gather EXCEPT ![s] = s_channels[s]]
    /\ UNCHANGED <<address_to_instances, nservers, s_address, s_handler, joiner, s_channels,
                   s_tasks, s_alive, chan_vars, hist_vars, conn_vars>>
    /\ last' = NoOutcome

\* DummyServer.stop up to the await of gather: the event is set, every task
\* of _tasks is cancelled, and one close() task is created per channel that
\* _channels holds at this moment.  gather() of nothing is already done, so
\* stop() then returns in the same step.
stop(s) ==
    /\ Quiet
    /\ s \in 1..nservers
    /\ s_alive[s]
    /\ gather[s] = {}
    /\ s_closed' = [s_closed EXCEPT ![s] = TRUE]
    /\ must_cancel' = cancel(s_tasks[s])
    /\ gather' = [gather EXCEPT ![s] = s_channels[s]]
    /\ UNCHANGED <<address_to_instances, nservers, s_address, s_handler, joiner, s_channels,
                   s_tasks, s_alive, chan_vars, hist_vars, nconns, c_server, c_kind,
                   task, invoked, client_task, reader>>
    /\ last' = NoOutcome

\* DummyServer.start: nothing to do.
start(s) ==
    /\ Quiet
    /\ s \in 1..nservers
    /\ s_alive[s]
    /\ UNCHANGED core_vars
    /\ last' = NoOutcome

\* The timeout arguments of join: None, or a positive number of seconds.
Timeouts == {None, 1}

\* DummyServer.join(timeout) up to its return or its suspension.  Without a
\* timeout wait_for awaits Event.wait() itself, which returns at once when
\* the event is set; with a timeout wait_for suspends in any case.
join(s, timeout) ==
    /\ Quiet
    /\ s \in 1..nservers
    /\ s_alive[s]
    /\ joiner[s] = "idle"
    /\ room_join \/ (timeout = None /\ s_closed[s])
    /\ joiner' = [joiner EXCEPT ![s] = IF timeout # None THEN "timed"
                                       ELSE IF s_closed[s] THEN "idle" ELSE "wait"]
    /\ UNCHANGED <<address_to_instances, nservers, s_address, s_handler, s_closed,
                   s_channels, s_tasks, s_alive, gather, chan_vars, hist_vars, conn_vars>>
    /\ last' = IF timeout = None /\ s_closed[s]
               THEN Outcome("join", "ok", None) ELSE NoOutcome

\* The suspended join() resumed because the event is set: wait_for returns
\* and join returns.
join_wake(s) ==
    /\ Quiet
    /\ joiner[s] # "idle"
    /\ s_closed[s]
    /\ joiner' = [joiner EXCEPT ![s] = "idle"]
    /\ UNCHANGED <<address_to_instances, nservers, s_address, s_handler, s_closed,
                   s_channels, s_tasks, s_alive, gather, chan_vars, hist_vars, conn_vars>>
    /\ last' = Outcome("join", "ok", None)

\* Mutant of join_timeout: the TimeoutError of wait_for is not caught.
join_timeout_raises(s) ==
    /\ Quiet
    /\ joiner[s] = "timed"
    /\ joiner' = [joiner EXCEPT ![s] = "idle"]
    /\ UNCHANGED <<address_to_instances, nservers, s_address, s_handler, s_closed,
                   s_channels, s_tasks, s_alive, gather, chan_vars, hist_vars, conn_vars>>
    /\ last' = Outcome("join", "TimeoutError", None)

\* The timeout of a suspended join(timeout) elapses: wait_for raises
\* TimeoutError, which join catches, and join returns.
join_timeout(s) ==
    /\ Quiet
    /\ joiner[s] = "timed"
    /\ joiner' = [joiner EXCEPT ![s] = "idle"]
    /\ UNCHANGED <<address_to_instances, nservers, s_address, s_handler, s_closed,
                   s_channels, s_tasks, s_alive, gather, chan_vars, hist_vars, conn_vars>>
    /\ last' = Outcome("join", "ok", None)

\* One of the channel.close() tasks that stop() gathers; stop() returns when
\* the last of them has run.
stop_close(s, c) ==
    /\ Quiet
    /\ c \in gather[s]
    /\ closed' = [closed EXCEPT ![c] = close(closed[c])]
    /\ gather' = [gather EXCEPT ![s] = @ \ {c}]
    /\ UNCHANGED <<address_to_instances, nservers, s_address, s_handler, joiner, s_closed,
                   s_channels, s_tasks, s_alive, q1, q2, hist_vars, conn_vars>>
    /\ last' = NoOutcome

\* ------------------------------------------------------------ DummyClient

\* The fresh pair made by connect (and by a caller that awaits on_connected
\* itself): the next unused connection, whose queues are empty and whose
\* event is not set.
NewPair(c, s, kind) ==
    /\ nconns' = c
    /\ c_server' = [c_server EXCEPT ![c] = s]
    /\ c_kind' = [c_kind EXCEPT ![c] = kind]

\* Mutant of connect_check: a stopped server is not refused.
connect_check_ignores_stopped(dest_address) ==
    IF urlparse_scheme(dest_address) # scheme THEN "ValueError"
    ELSE IF get_instance(dest_address).res = "KeyError" THEN "KeyError"
    ELSE "ok"

\* Mutant of connect_check: a missing server is refused like a stopped one.
connect_check_missing_refused(dest_address) ==
    IF urlparse_scheme(dest_address) # scheme THEN "ValueError"
    ELSE IF get_instance(dest_address).res = "KeyError" THEN "ConnectionError"
    ELSE IF stopped(get_instance(dest_address).server) THEN "ConnectionError"
    ELSE "ok"

\* The checks of connect before anything is allocated.
connect_check(dest_address) ==
    IF urlparse_scheme(dest_address) # scheme THEN "ValueError"
    ELSE IF get_instance(dest_address).res = "KeyError" THEN "KeyError"
    ELSE IF stopped(get_instance(dest_address).server) THEN "ConnectionError"
    ELSE "ok"

\* Mutant of connect: the task is not added to the server's _tasks.
connect_unregistered(dest_address) ==
    /\ Quiet
    /\ IF connect_check(dest_address) # "ok"
       THEN /\ UNCHANGED core_vars
            /\ last' = Outcome("connect", connect_check(dest_address), None)
       ELSE /\ room_conn
            /\ LET c == nconns + 1
                   server == get_instance(dest_address).server IN
               /\ NewPair(c, server, "task")
               /\ task' = [task EXCEPT ![c] = "pending"]
               /\ client_task' = [client_task EXCEPT ![c] = TRUE]
            /\ UNCHANGED <<srv_vars, chan_vars, hist_vars, must_cancel, invoked, reader>>
            /\ last' = NoOutcome

\* DummyClient.connect(dest_address): one step, the accept task it creates
\* has not run when connect returns.
connect(dest_address) ==
    /\ Quiet
    /\ IF connect_check(dest_address) # "ok"
       THEN /\ UNCHANGED core_vars
            /\ last' = Outcome("connect", connect_check(dest_address), None)
       ELSE /\ room_conn
            /\ LET c == nconns + 1
                   server == get_instance(dest_address).server IN
               /\ NewPair(c, server, "task")
               /\ task' = [task EXCEPT ![c] = "pending"]
               /\ client_task' = [client_task EXCEPT ![c] = TRUE]
               /\ s_tasks' = [s_tasks EXCEPT ![server] = @ \cup {c}]
            /\ UNCHANGED <<address_to_instances, nservers, s_address, s_handler, joiner, s_closed,
                           s_channels, s_alive, gather, chan_vars, hist_vars,
                           must_cancel, invoked, reader>>
            /\ last' = NoOutcome

\* Mutant of client_close: the accept task is not cancelled.
client_close_without_cancel(c) ==
    /\ Quiet
    /\ c \in 1..nconns
    /\ c_kind[c] = "task"
    /\ closed' = [closed EXCEPT ![c] = TRUE]
    /\ client_task' = [client_task EXCEPT ![c] = FALSE]
    /\ UNCHANGED <<srv_vars, q1, q2, hist_vars, nconns, c_server, c_kind, task,
                   must_cancel, invoked, reader>>
    /\ last' = NoOutcome

\* Client.close of the base class, which DummyClient.close awaits first: it
\* closes the client's channel.
super_close(is_closed) == close(is_closed)

\* DummyClient.close: the base class's close, then the accept task is
\* cancelled if the handle is set, and the handle is dropped.
client_close(c) ==
    /\ Quiet
    /\ c \in 1..nconns
    /\ c_kind[c] = "task"
    /\ closed' = [closed EXCEPT ![c] = super_close(closed[c])]
    /\ must_cancel' = IF client_task[c] THEN cancel({c}) ELSE must_cancel
    /\ client_task' = [client_task EXCEPT ![c] = FALSE]
    /\ UNCHANGED <<srv_vars, q1, q2, hist_vars, nconns, c_server, c_kind, task,
                   invoked, reader>>
    /\ last' = NoOutcome

\* ------------------------------------------------------- the accept task

\* First step of the task made by connect.  A task cancelled before it ran
\* never enters the coroutine.
accept_start(c) ==
    /\ Quiet
    /\ c \in 1..nconns
    /\ task[c] = "pending"
    /\ IF must_cancel[c]
       THEN /\ task' = [task EXCEPT ![c] = "cancelled"]
            /\ must_cancel' = [must_cancel EXCEPT ![c] = FALSE]
            /\ UNCHANGED <<s_channels, invoked, q1, q2, hist_vars>>
       ELSE /\ on_connected(c_server[c], c, server_channel(c))
            /\ UNCHANGED must_cancel
    /\ UNCHANGED <<address_to_instances, nservers, s_address, s_handler, joiner, s_closed,
                   s_tasks, s_alive, gather, closed, nconns, c_server, c_kind,
                   client_task, reader>>
    /\ last' = NoOutcome

\* Mutant of accept_resume: the cancellation is swallowed in recv() and the
\* handler goes on waiting.
accept_resume_swallows_cancel(c) ==
    /\ Quiet
    /\ c \in 1..nconns
    /\ task[c] = "recv"
    /\ must_cancel[c] \/ q2[c] # <<>>
    /\ IF must_cancel[c]
       THEN /\ must_cancel' = [must_cancel EXCEPT ![c] = FALSE]
            /\ UNCHANGED <<task, q1, q2, hist_vars>>
       ELSE /\ StoreChannel(c, handler_resume(s_handler[c_server[c]], server_channel(c)))
            /\ UNCHANGED <<must_cancel, sent_c, rcvd_c>>
    /\ UNCHANGED <<srv_vars, closed, nconns, c_server, c_kind, invoked,
                   client_task, reader>>
    /\ last' = NoOutcome

\* A later step of the coroutine, suspended in the handler's recv(): either
\* the pending cancellation is thrown in at the await (nothing is dequeued),
\* or the put that woke it lets Queue.get return and the handler go on.
accept_resume(c) ==
    /\ Quiet
    /\ c \in 1..nconns
    /\ task[c] = "recv"
    /\ must_cancel[c] \/ q2[c] # <<>>
    /\ IF must_cancel[c]
       THEN /\ task' = [task EXCEPT ![c] = "cancelled"]
            /\ must_cancel' = [must_cancel EXCEPT ![c] = FALSE]
            /\ UNCHANGED <<q1, q2, hist_vars>>
       ELSE /\ StoreChannel(c, handler_resume(s_handler[c_server[c]], server_channel(c)))
            /\ UNCHANGED <<must_cancel, sent_c, rcvd_c>>
    /\ UNCHANGED <<srv_vars, closed, nconns, c_server, c_kind, invoked,
                   client_task, reader>>
    /\ last' = NoOutcome

\* The done callback _discard of connect, run by the loop after the task
\* has completed.
discard(c) ==
    /\ Quiet
    /\ c \in 1..nconns
    /\ done(c)
    /\ c \in s_tasks[c_server[c]]
    /\ s_tasks' = [s_tasks EXCEPT ![c_server[c]] = @ \ {c}]
    /\ UNCHANGED <<address_to_instances, nservers, s_address, s_handler, joiner, s_closed,
                   s_channels, s_alive, gather, chan_vars, hist_vars, conn_vars>>
    /\ last' = NoOutcome

\* A caller awaits server.on_connected(server_channel) itself, with the
\* server channel of a pair it has just built.
direct_on_connected(s) ==
    /\ Quiet
    /\ s \in 1..nservers
    /\ s_alive[s]
    /\ IF on_connected_check(s) # "ok"
       THEN /\ UNCHANGED core_vars
            /\ last' = Outcome("on_connected", on_connected_check(s), None)
       ELSE /\ room_conn
            /\ LET c == nconns + 1 IN
               /\ NewPair(c, s, "direct")
               /\ on_connected(s, c, server_channel(c))
            /\ UNCHANGED <<address_to_instances, nservers, s_address, s_handler, joiner,
                           s_closed, s_tasks, s_alive, gather, closed, must_cancel,
                           client_task, reader>>
            /\ last' = NoOutcome

\* ------------------------------------------- calls on the client channel

\* Mutant of client_send: the message goes to the queues of every pair.
client_send_broadcast(c, message) ==
    /\ Quiet
    /\ c \in 1..nconns
    /\ closed[c] \/ room_send
    /\ message = nsent(nconns) + 1
    /\ q2' = [d \in Conns |-> IF closed[c] \/ d > nconns THEN q2[d]
                                ELSE put_nowait(q2[d], message)]
    /\ sent_c' = [sent_c EXCEPT ![c] = IF closed[c] THEN @ ELSE Append(@, message)]
    /\ UNCHANGED <<srv_vars, closed, q1, rcvd_s, sent_s, rcvd_c, conn_vars>>
    /\ last' = IF closed[c] THEN Outcome("send", "ChannelClosed", None) ELSE NoOutcome

\* await client.channel.send(message)
client_send(c, message) ==
    /\ Quiet
    /\ c \in 1..nconns
    /\ closed[c] \/ room_send
    /\ message = nsent(nconns) + 1
    /\ LET r == send(closed[c], q2[c], message) IN
       /\ q2' = [q2 EXCEPT ![c] = r.out]
       /\ sent_c' = [sent_c EXCEPT ![c] = IF r.res = "ok" THEN Append(@, message) ELSE @]
    /\ UNCHANGED <<srv_vars, closed, q1, rcvd_s, sent_s, rcvd_c, conn_vars>>
    /\ last' = IF send(closed[c], q2[c], message).res = "ok" THEN NoOutcome
               ELSE Outcome("send", send(closed[c], q2[c], message).res, None)

\* await client.channel.recv(), up to its return or its suspension.
client_recv(c) ==
    /\ Quiet
    /\ c \in 1..nconns
    /\ reader[c] = "idle"
    /\ LET r == recv(closed[c], q1[c]) IN
       /\ q1' = [q1 EXCEPT ![c] = r.rest]
       /\ rcvd_c' = [rcvd_c EXCEPT ![c] = IF r.res = "ok" THEN Append(@, r.item) ELSE @]
       /\ reader' = [reader EXCEPT ![c] = IF r.res = "suspend" THEN "waiting" ELSE @]
    /\ UNCHANGED <<srv_vars, closed, q2, sent_c, rcvd_s, sent_s, nconns, c_server,
                   c_kind, task, must_cancel, invoked, client_task>>
    /\ last' = IF recv(closed[c], q1[c]).res = "ChannelClosed"
               THEN Outcome("recv", "ChannelClosed", None) ELSE NoOutcome

\* The suspended recv() of the client side, woken by a put on its queue.
client_recv_resume(c) ==
    /\ Quiet
    /\ c \in 1..nconns
    /\ reader[c] = "waiting"
    /\ q1[c] # <<>>
    /\ LET g == get_nowait(q1[c]) IN
       /\ q1' = [q1 EXCEPT ![c] = g.rest]
       /\ rcvd_c' = [rcvd_c EXCEPT ![c] = Append(@, g.item)]
    /\ reader' = [reader EXCEPT ![c] = "idle"]
    /\ UNCHANGED <<srv_vars, closed, q2, sent_c, rcvd_s, sent_s, nconns, c_server,
                   c_kind, task, must_cancel, invoked, client_task>>
    /\ last' = NoOutcome

\* Mutant of channel_close: close() also puts a sentinel on both queues.
channel_close_sentinel(c) ==
    /\ Quiet
    /\ c \in 1..nconns
    /\ closed' = [closed EXCEPT ![c] = close(closed[c])]
    /\ q1' = [q1 EXCEPT ![c] = put_nowait(@, None)]
    /\ q2' = [q2 EXCEPT ![c] = put_nowait(@, None)]
    /\ UNCHANGED <<srv_vars, hist_vars, conn_vars>>
    /\ last' = NoOutcome

\* await client.channel.close()
channel_close(c) ==
    /\ Quiet
    /\ c \in 1..nconns
    /\ closed' = [closed EXCEPT ![c] = close(closed[c])]
    /\ UNCHANGED <<srv_vars, q1, q2, hist_vars, conn_vars>>
    /\ last' = NoOutcome

\* --------------------------------------------------- garbage collection

\* The coroutine of an unfinished on_connected and the pending _discard
\* closure both hold the server.
held(s) ==
    \/ gather[s] # {}
    \/ joiner[s] # "idle"
    \/ \E c \in 1..nconns : c_server[c] = s /\ (~done(c) \/ c \in s_tasks[s])

\* The last outside reference to a server goes away: the weak-value
\* registry loses the entry if it still maps the address to this server.
collect(s) ==
    /\ Quiet
    /\ s \in 1..nservers
    /\ s_alive[s]
    /\ ~held(s)
    /\ s_alive' = [s_alive EXCEPT ![s] = FALSE]
    /\ address_to_instances' =
           [a \in DummyAddrs |-> IF address_to_instances[a] = s THEN None
                                 ELSE address_to_instances[a]]
    /\ UNCHANGED <<nservers, s_address, s_handler, joiner, s_closed, s_channels, s_tasks,
                   gather, chan_vars, hist_vars, conn_vars>>
    /\ last' = NoOutcome

\* A server channel nothing refers to any more leaves the weak set
\* _channels: its task has completed and its callbacks have run.
drop_channel(c) ==
    /\ Quiet
    /\ c \in 1..nconns
    /\ c \in s_channels[c_server[c]]
    /\ done(c)
    /\ c \notin s_tasks[c_server[c]]
    /\ c \notin gather[c_server[c]]
    /\ s_channels' = [s_channels EXCEPT ![c_server[c]] = @ \ {c}]
    /\ UNCHANGED <<address_to_instances, nservers, s_address, s_handler, joiner, s_closed,
                   s_tasks, s_alive, gather, chan_vars, hist_vars, conn_vars>>
    /\ last' = NoOutcome

\* ------------------------------------------------------- specification

\* The caller that got an exception (or create's existing server) goes on.
caller_continues ==
    /\ ~Quiet
    /\ last' = NoOutcome
    /\ UNCHANGED core_vars

Next ==
    \/ \E a \in CallAddrs, h \in Handlers : create(a, h)
    \/ \E s \in Servers : start(s)
    \/ \E s \in Servers : stop(s)
    \/ \E s \in Servers, c \in Conns : stop_close(s, c)
    \/ \E s \in Servers, t \in Timeouts : join(s, t)
    \/ \E s \in Servers : join_wake(s)
    \/ \E s \in Servers : join_timeout(s)
    \/ \E s \in Servers : direct_on_connected(s)
    \/ \E a \in CallAddrs : connect(a)
    \/ \E c \in Conns : client_close(c)
    \/ \E c \in Conns : accept_start(c)
    \/ \E c \in Conns : accept_resume(c)
    \/ \E c \in Conns : discard(c)
    \/ \E c \in Conns, m \in Msgs \cup {MaxTraffic + 1} : client_send(c, m)
    \/ \E c \in Conns : client_recv(c)
    \/ \E c \in Conns : client_recv_resume(c)
    \/ \E c \in Conns : channel_close(c)
    \/ \E s \in Servers : collect(s)
    \/ \E c \in Conns : drop_channel(c)
    \/ caller_continues

\* The steps the event loop takes of its own: tasks that are ready and
\* callbacks that are scheduled.
Loop ==
    \/ \E c \in Conns : accept_start(c)
    \/ \E c \in Conns : accept_resume(c)
    \/ \E c \in Conns : discard(c)
    \/ \E s \in Servers, c \in Conns : stop_close(s, c)
    \/ \E s \in Servers : join_wake(s)
    \/ \E s \in Servers : join_timeout(s)
    \/ \E c \in Conns : client_recv_resume(c)

Spec == Init /\ [][Next]_vars

TypeOK ==
    /\ objects \in 0..MaxObjects
    /\ traffic \in 0..MaxTraffic
    /\ \A c \in Conns : task[c] \in TaskStates

\* One step of the accept task of connection c.
TaskStep(c) == accept_start(c) \/ accept_resume(c)

\* The event loop runs every task that is ready and every callback that is
\* scheduled, in the order they became ready, and a caller that got an
\* exception goes on.  A ready task stays ready until it runs; it is only
\* kept from running for the moment in which a caller handles what its
\* call raised, hence strong fairness.  Callers are under no obligation to
\* make further calls.
FairSpec ==
    /\ Spec
    /\ WF_vars(caller_continues)
    /\ SF_vars(Loop)
    /\ \A c \in Conns : SF_vars(TaskStep(c))

\* ================================================================ claims

IsPrefix(p, q) == Len(p) <= Len(q) /\ SubSeq(q, 1, Len(p)) = p

Allocated == 1..nconns
Constructed == 1..nservers

\* Client.close() has been called on the client of connection c.
ClientClosed(c) == c \in Allocated /\ c_kind[c] = "task" /\ ~client_task[c]

\* C1: FIFO delivery per direction.  On every connection, the values the
\* handler's recv() calls have returned are a prefix of the values send() has
\* accepted on the client channel, and the values the client's recv() calls
\* have returned are a prefix of those send() has accepted on the server
\* channel: same order, nothing duplicated, skipped or reordered.
C1_FifoDelivery ==
    \A c \in Allocated :
        /\ IsPrefix(rcvd_s[c], sent_c[c])
        /\ IsPrefix(rcvd_c[c], sent_s[c])

\* Two messages have made the round trip on one connection.
C1_Witness == \E c \in Allocated : Len(rcvd_c[c]) >= 2 /\ Len(rcvd_s[c]) >= 2

\* A step in which close() runs on a channel of connection c: on the client
\* channel, or on the server channel (one of the close() tasks of stop()).
CloseStep(c) ==
    \/ channel_close(c)
    \/ \E s \in Servers : stop_close(s, c)

\* C2: symmetric close.  A close() on the client channel or on the server
\* channel of a pair sets the pair's event, which both channels read, in that
\* very step; and from a state where it is set, send() on the client channel
\* raises ChannelClosed and changes nothing, and no step at all (so no send()
\* of the handler either) appends to either queue of the pair.
C2_SymmetricClose ==
    [][\A c \in Conns :
          /\ closed'[c] \/ ~CloseStep(c)
          /\ closed[c] =>
               /\ Len(q1'[c]) <= Len(q1[c])
               /\ Len(q2'[c]) <= Len(q2[c])
               /\ client_send(c, nsent(nconns) + 1) =>
                     /\ last' = Outcome("send", "ChannelClosed", None)
                     /\ UNCHANGED core_vars]_vars

\* The server side closed the pair (stop() ran close() on the server channel,
\* the client never closed) and a send() on the client channel was refused.
C2_Witness ==
    /\ last = Outcome("send", "ChannelClosed", None)
    /\ \E c \in Allocated :
          /\ closed[c]
          /\ client_task[c]
          /\ s_closed[c_server[c]]
          /\ c \in s_channels[c_server[c]]

\* C3 as stated: after Client.close(), the next recv() of a handler that had
\* received a message resolves quietly; no interruption is raised into the
\* handler, so its task does not end cancelled.
C3_QuietEndOfStream ==
    \A c \in Allocated :
        (ClientClosed(c) /\ Len(rcvd_s[c]) >= 1) => task[c] # "cancelled"

\* C3, amended: when Client.close() has been called while the handler is
\* suspended in recv(), the cancellation of the accept task is pending, and
\* the handler's recv() never returns: the handler receives nothing more,
\* nothing is taken from its queue, and the task's next step raises the
\* cancellation into the handler at that recv(), which ends the task
\* cancelled.
C3_CloseCancelsHandler ==
    [][\A c \in Conns :
          (ClientClosed(c) /\ task[c] = "recv") =>
             /\ must_cancel[c]
             /\ rcvd_s'[c] = rcvd_s[c]
             /\ IsPrefix(q2[c], q2'[c])
             /\ task'[c] \in {"recv", "cancelled"}
             /\ TaskStep(c) => task'[c] = "cancelled"]_vars

\* The handler received a message, was suspended in recv() again when the
\* client closed, and its task has ended cancelled.
C3_Witness ==
    \E c \in Allocated :
        /\ ClientClosed(c)
        /\ Len(rcvd_s[c]) >= 1
        /\ task[c] = "cancelled"
        /\ ~s_closed[c_server[c]]

\* The accept task of connection c, made by connect, has not completed.
Unfinished(c) == c_kind[c] = "task" /\ task[c] \in {"pending", "recv"}

\* C4: cancellation reach.  A stop() step requests the cancellation of every
\* accept task of the server that connect has spawned and that has not
\* completed.  While a cancellation is pending the task's handler does
\* nothing more: it is not entered if the task had not started, it receives
\* and sends nothing, and the only change of the task is to end cancelled,
\* which is what its next step does.  That step is ready to run whenever the
\* event loop is free to take it, so the loop, which runs every ready task,
\* brings the task to its cancelled end.
C4_CancellationReach ==
    /\ [](\A c \in Conns : (Quiet /\ must_cancel[c]) => ENABLED TaskStep(c))
    /\ [][\A c \in Conns :
            /\ \A s \in Servers :
                  (c_server[c] = s /\ Unfinished(c) /\ stop(s)) => must_cancel'[c]
            /\ must_cancel[c] =>
                  /\ task'[c] \in {task[c], "cancelled"}
                  /\ must_cancel'[c] \/ task'[c] = "cancelled"
                  /\ TaskStep(c) => task'[c] = "cancelled"
                  /\ invoked'[c] = invoked[c]
                  /\ rcvd_s'[c] = rcvd_s[c]
                  /\ sent_s'[c] = sent_s[c]]_vars

\* stop() cancelled a task that had not started: the handler was never
\* called, and the client has not closed.
C4_Witness ==
    \E c \in Allocated :
        /\ task[c] = "cancelled"
        /\ ~invoked[c]
        /\ client_task[c]
        /\ s_closed[c_server[c]]

\* C5: a stopped server never accepts.  From a state where a server is
\* stopped, no step adds a channel to its _channels and no step calls its
\* handler with a channel it had not been called with; an on_connected awaited
\* directly on it raises ServerClosed, and a connect to the address that maps
\* to it is refused with ConnectionError; both change nothing.  A task that
\* connect made before stop() and that had not started is covered too: its
\* first step after stop() does not reach the handler.
C5_StoppedNeverAccepts ==
    [][\A s \in Servers :
          s_closed[s] =>
             /\ s_channels'[s] \subseteq s_channels[s]
             /\ \A c \in Conns : (c_server'[c] = s /\ invoked'[c]) => invoked[c]
             /\ direct_on_connected(s) =>
                   /\ last' = Outcome("on_connected", "ServerClosed", None)
                   /\ UNCHANGED core_vars
             /\ \A a \in CallAddrs :
                   (address_to_instances[a] = s /\ connect(a)) =>
                      /\ last' = Outcome("connect", "ConnectionError", None)
                      /\ nconns' = nconns]_vars

\* A direct on_connected on a stopped server raised ServerClosed, and a task
\* that connect had made before the stop ended without the handler being
\* called or its channel being tracked.
C5_Witness ==
    /\ last = Outcome("on_connected", "ServerClosed", None)
    /\ \E c \in Allocated :
          /\ c_kind[c] = "task"
          /\ s_closed[c_server[c]]
          /\ task[c] = "cancelled"
          /\ ~invoked[c]
          /\ c \notin s_channels[c_server[c]]

\* C6: idempotent singleton.  The registry maps an address only to a live
\* server constructed for that address; and a create for an address whose
\* registered server is not stopped returns that very server, constructs and
\* registers nothing, and leaves the server's handler as it was, whatever
\* handler the call passes.  create has no suspension point, so calls of
\* concurrent callers are steps one after another.
C6_IdempotentSingleton ==
    /\ [](\A a \in DummyAddrs :
            address_to_instances[a] # None =>
               /\ address_to_instances[a] \in Constructed
               /\ s_alive[address_to_instances[a]]
               /\ s_address[address_to_instances[a]] = a)
    /\ [][\A a \in CallAddrs, h \in Handlers :
            (/\ address_to_instances[a] # None
             /\ ~s_closed[address_to_instances[a]]
             /\ create(a, h)) =>
                /\ last' = Outcome("create", "ok", address_to_instances[a])
                /\ UNCHANGED core_vars]_vars

\* A create returned the existing server, which is the only one constructed
\* and has connections.
C6_Witness ==
    /\ last.op = "create"
    /\ last.res = "ok"
    /\ nservers = 1
    /\ last.val = 1
    /\ s_handler[1] = "once"
    /\ nconns >= 1

\* C7: a stopped server refuses connects.  A connect to an address whose
\* registered server is stopped raises ConnectionError and changes nothing: no
\* pair, no task, the server's _tasks and the registry as before.
C7_StoppedRefusesConnect ==
    [][\A a \in CallAddrs :
          (/\ get_instance(a).res = "ok"
           /\ stopped(get_instance(a).server)
           /\ connect(a)) =>
              /\ last' = Outcome("connect", "ConnectionError", None)
              /\ UNCHANGED core_vars]_vars

\* A connect was refused by a stopped server that had accepted a connection
\* before.
C7_Witness ==
    /\ last = Outcome("connect", "ConnectionError", None)
    /\ \E c \in Allocated : invoked[c] /\ s_closed[c_server[c]]

\* C8: missing server.  A connect to a dummy address the registry has no entry
\* for raises the lookup's KeyError, which is not the ConnectionError of a
\* stopped server, and changes nothing.
C8_MissingServer ==
    [][\A a \in CallAddrs :
          (address_to_instances[a] = None /\ connect(a)) =>
             /\ last' = Outcome("connect", "KeyError", None)
             /\ last' # Outcome("connect", "ConnectionError", None)
             /\ UNCHANGED core_vars]_vars

\* A connect found no server at an address where one had been created: the
\* server was collected and its entry has gone.
C8_Witness ==
    /\ last = Outcome("connect", "KeyError", None)
    /\ \E s \in Constructed : ~s_alive[s]

\* C9: recv() on a closed channel.  From a state where the pair's event is
\* set, a recv() call on the client channel raises ChannelClosed and changes
\* nothing, whatever its queue holds; and a handler that makes its first
\* recv() call then ends with ChannelClosed with its queue and what it has
\* received unchanged.
C9_RecvOnClosedFails ==
    [][\A c \in Conns :
          closed[c] =>
             /\ client_recv(c) =>
                   /\ last' = Outcome("recv", "ChannelClosed", None)
                   /\ UNCHANGED core_vars
             /\ (~must_cancel[c] /\ accept_start(c)) =>
                   /\ task'[c] = "ChannelClosed"
                   /\ q2'[c] = q2[c]
                   /\ rcvd_s'[c] = rcvd_s[c]]_vars

\* recv() was refused on the closed client channel of the only connection
\* while its queue held a message sent before the close.
C9_Witness ==
    /\ last = Outcome("recv", "ChannelClosed", None)
    /\ nconns = 1
    /\ closed[1]
    /\ q1[1] # <<>>

\* C10: close does not wake a blocked reader.  A step that runs close() on a
\* channel of a pair leaves both queues, the client's suspended recv() and the
\* handler's task as they are.  On a closed pair, a recv() of the client
\* suspended on an empty queue is still suspended after any step and cannot
\* be resumed, and a handler suspended in recv() on an empty queue with no
\* cancellation pending is still suspended after any step.
C10_CloseDoesNotWake ==
    /\ [](\A c \in Conns :
            (closed[c] /\ reader[c] = "waiting" /\ q1[c] = <<>>) =>
               ~ENABLED client_recv_resume(c))
    /\ [][\A c \in Conns :
            /\ CloseStep(c) =>
                  /\ q1'[c] = q1[c]
                  /\ q2'[c] = q2[c]
                  /\ reader'[c] = reader[c]
                  /\ task'[c] = task[c]
            /\ (closed[c] /\ reader[c] = "waiting" /\ q1[c] = <<>>) =>
                  /\ reader'[c] = "waiting"
                  /\ rcvd_c'[c] = rcvd_c[c]
            /\ (closed[c] /\ task[c] = "recv" /\ q2[c] = <<>> /\ ~must_cancel[c]) =>
                  /\ task'[c] = "recv"
                  /\ rcvd_s'[c] = rcvd_s[c]]_vars

\* Both sides of a pair are suspended in recv() on empty queues, the pair is
\* closed, and no cancellation is pending.
C10_Witness ==
    \E c \in Allocated :
        /\ closed[c]
        /\ reader[c] = "waiting"
        /\ q1[c] = <<>>
        /\ task[c] = "recv"
        /\ q2[c] = <<>>
        /\ ~must_cancel[c]

\* C11: stop() closes every tracked channel.  stop() has returned when none
\* of the close() tasks it gathers is left.  Of a stopped server, every
\* tracked channel whose close() task is not still to run belongs to a closed
\* pair; so when stop() has returned the server is stopped and every channel
\* it tracks is closed.  Each close() task of stop() closes its pair and
\* raises nothing, also on a pair that was closed already, and only a stop()
\* step adds close() tasks.
C11_StopClosesTracked ==
    /\ [](\A s \in Servers :
            /\ gather[s] # {} => s_closed[s]
            /\ s_closed[s] => \A c \in s_channels[s] \ gather[s] : closed[c])
    /\ [][\A s \in Servers :
            /\ (s_closed'[s] /\ ~s_closed[s]) => gather'[s] = s_channels[s]
            /\ \A c \in Conns :
                  stop_close(s, c) => (closed'[c] /\ last' = NoOutcome)]_vars

\* stop() has returned on a server that tracks two channels; both pairs are
\* closed, and neither client has called Client.close().
C11_Witness ==
    \E s \in Constructed :
        /\ s_closed[s]
        /\ gather[s] = {}
        /\ Cardinality(s_channels[s]) >= 2
        /\ \A c \in s_channels[s] : closed[c] /\ client_task[c]

\* C12: Client.close().  A Client.close() step leaves the pair closed and the
\* task handle cleared, requests the cancellation of the accept task if the
\* handle was set and the task has not completed, and requests nothing for a
\* completed task; it touches no other connection's cancellation and raises
\* nothing.  A client that has closed has its pair closed, and a further
\* Client.close() on it changes nothing at all.
C12_ClientCloseIdempotent ==
    /\ [](\A c \in Allocated : ClientClosed(c) => closed[c])
    /\ [][\A c \in Conns :
            client_close(c) =>
               /\ closed'[c]
               /\ ~client_task'[c]
               /\ last' = NoOutcome
               /\ (client_task[c] /\ Unfinished(c)) => must_cancel'[c]
               /\ (client_task[c] /\ done(c)) => must_cancel' = must_cancel
               /\ \A d \in Conns \ {c} : must_cancel'[d] = must_cancel[d]
               /\ ClientClosed(c) => UNCHANGED vars]_vars

\* The first Client.close() found the handler suspended in recv(): the pair
\* is closed, the handle cleared, the cancellation pending; the server is not
\* stopped, and a second Client.close() can follow.
C12_Witness ==
    \E c \in Allocated :
        /\ ClientClosed(c)
        /\ closed[c]
        /\ must_cancel[c]
        /\ task[c] = "recv"
        /\ ~s_closed[c_server[c]]
        /\ ENABLED client_close(c)

\* Everything but the state of the join() calls and the latest outcome.
but_joiner == <<address_to_instances, nservers, s_address, s_handler, s_closed,
                s_channels, s_tasks, s_alive, gather, chan_vars, hist_vars, conn_vars>>

\* C13: join.  A join() suspended without a timeout stays suspended as long as
\* the server is not stopped, and nothing can resume it; once the server is
\* stopped, the step that resumes a suspended join() is ready whenever the
\* event loop is free to take it, and so is, at any time, the step in which
\* the timeout of a join(timeout) elapses.  Every step of a join() (the call,
\* the resumption after stop(), the timeout) changes no server, registry,
\* task or channel state and raises nothing, and every step that ends a
\* suspended join() is a normal return.
C13_Join ==
    /\ [](\A s \in Servers :
            /\ (joiner[s] = "wait" /\ ~s_closed[s]) =>
                  (~ENABLED join_wake(s) /\ ~ENABLED join_timeout(s))
            /\ (Quiet /\ joiner[s] # "idle" /\ s_closed[s]) => ENABLED join_wake(s)
            /\ (Quiet /\ joiner[s] = "timed") => ENABLED join_timeout(s))
    /\ [][\A s \in Servers :
            /\ (joiner[s] = "wait" /\ ~s_closed'[s]) => joiner'[s] = "wait"
            /\ joiner'[s] # joiner[s] =>
                  /\ UNCHANGED but_joiner
                  /\ last' \in {NoOutcome, Outcome("join", "ok", None)}
            /\ (joiner[s] # "idle" /\ joiner'[s] = "idle") =>
                  last' = Outcome("join", "ok", None)
            /\ \A t \in Timeouts :
                  join(s, t) =>
                     /\ UNCHANGED but_joiner
                     /\ last' \in {NoOutcome, Outcome("join", "ok", None)}
                     /\ (t = None /\ ~s_closed[s]) => joiner'[s] = "wait"]_vars

\* A join(timeout) has returned normally on the only server, which has
\* accepted a connection and has never been stopped.
C13_Witness ==
    /\ last = Outcome("join", "ok", None)
    /\ nservers = 1
    /\ ~s_closed[1]
    /\ \E c \in Allocated : invoked[c]

\* C14: the server lifecycle is one-way.  No step takes a stopped server back
\* to not stopped: not a create at its address (which constructs another
\* server), not start, join, connect or a close.  A stop() on a stopped server
\* raises nothing and leaves it stopped.
C14_StoppedMonotonic ==
    [][\A s \in Servers :
          s_closed[s] =>
             /\ s_closed'[s]
             /\ stop(s) => last' = NoOutcome]_vars

\* A server was stopped and another one created at its address: the first is
\* still referenced and still stopped, the second is registered, and stop()
\* can be called on the first again.
C14_Witness ==
    /\ nservers = 2
    /\ s_closed[1]
    /\ s_alive[1]
    /\ s_address[2] = s_address[1]
    /\ address_to_instances[s_address[1]] = 2
    /\ ~s_closed[2]
    /\ ENABLED stop(1)

\* The servers created for address a that exist and are not stopped.
LiveAt(a) == {s \in Constructed : s_alive[s] /\ ~s_closed[s] /\ s_address[s] = a}

\* C15: re-creation after stop.  In every state, at most one server that
\* exists and is not stopped has been created for an address, and it is the
\* registered one; tasks and channels are held by the server their
\* connection was made to.  A create for an address whose entry is missing or
\* maps to a stopped server constructs a further server, not stopped, with
\* the handler passed, and registers it at the address; the old server stays
\* as it was.  A connect to an address whose registered server is not stopped
\* raises nothing, and its connection and task belong to that server, the
\* other servers' task sets being unchanged.
C15_RecreateAfterStop ==
    /\ [](\A a \in DummyAddrs :
            /\ Cardinality(LiveAt(a)) <= 1
            /\ LiveAt(a) \subseteq {address_to_instances[a]})
    /\ [](\A s \in Servers : \A c \in s_tasks[s] \cup s_channels[s] : c_server[c] = s)
    /\ [][\A a \in CallAddrs :
            /\ \A h \in Handlers :
                  (/\ \/ address_to_instances[a] = None
                      \/ s_closed[address_to_instances[a]]
                   /\ create(a, h)) =>
                     /\ nservers' = nservers + 1
                     /\ address_to_instances'[a] = nservers'
                     /\ ~s_closed'[nservers']
                     /\ s_alive'[nservers']
                     /\ s_handler'[nservers'] = h
                     /\ s_address'[nservers'] = a
                     /\ \A s \in Constructed : s_closed'[s] = s_closed[s]
            /\ (connect_check(a) = "ok" /\ connect(a)) =>
                  /\ last' = NoOutcome
                  /\ nconns' = nconns + 1
                  /\ c_server'[nconns'] = address_to_instances[a]
                  /\ s_tasks'[address_to_instances[a]] =
                        s_tasks[address_to_instances[a]] \cup {nconns'}
                  /\ \A s \in Servers \ {address_to_instances[a]} :
                        s_tasks'[s] = s_tasks[s]]_vars

\* A server was stopped, a second one was created at its address with the
\* other handler, and a connection made afterwards is served by the second.
C15_Witness ==
    /\ nservers = 2
    /\ s_closed[1]
    /\ s_address[2] = s_address[1]
    /\ s_handler[2] # s_handler[1]
    /\ address_to_instances[s_address[1]] = 2
    /\ \E c \in Allocated : c_server[c] = 2 /\ invoked[c] /\ c \in s_channels[2]

\* C16: Channel.close() is idempotent and the closed flag is monotonic.  No
\* step takes a closed pair back to not closed; and a close() on either
\* channel of a closed pair raises nothing and leaves the flag and both
\* queues of the pair as they were.
C16_CloseIdempotent ==
    [][\A c \in Conns :
          closed[c] =>
             /\ closed'[c]
             /\ CloseStep(c) =>
                   /\ q1'[c] = q1[c]
                   /\ q2'[c] = q2[c]
                   /\ last' = NoOutcome]_vars

\* A pair that the client channel has closed, with a message left in a
\* queue, is about to be closed again by a close() task of stop().
C16_Witness ==
    \E c \in Allocated :
        /\ closed[c]
        /\ q1[c] # <<>>
        /\ c \in gather[c_server[c]]
        /\ ENABLED channel_close(c)

\* C17 as stated: in every state no completed task is a member of a server's
\* task set.
C17_OnlyRunningTasks ==
    \A s \in Servers : \A c \in s_tasks[s] : ~done(c)

\* C17, amended: a server's task set holds exactly the accept tasks of
\* connections made to it by connect that have not completed, together with
\* completed ones whose completion callback has not run yet.  A connect adds
\* its own new task and nothing else; no other step adds a task; a task
\* leaves the set only after it has completed, and the callback that removes
\* a completed task is ready whenever the event loop is free to run it.
C17_TaskSet ==
    /\ [](\A c \in Allocated :
            /\ Unfinished(c) => c \in s_tasks[c_server[c]]
            /\ (Quiet /\ done(c) /\ c \in s_tasks[c_server[c]]) => ENABLED discard(c))
    /\ [](\A s \in Servers : \A c \in s_tasks[s] :
            c \in Allocated /\ c_server[c] = s /\ c_kind[c] = "task")
    /\ [][\A s \in Servers :
            /\ \A c \in s_tasks'[s] \ s_tasks[s] :
                  /\ \E a \in CallAddrs : connect(a)
                  /\ c = nconns + 1
                  /\ s_tasks'[s] = s_tasks[s] \cup {c}
                  /\ task'[c] = "pending"
            /\ \A c \in s_tasks[s] \ s_tasks'[s] : done(c) /\ discard(c)]_vars

\* A handler has returned and its task has completed, but the completion
\* callback has not run: the completed task is still in the server's set,
\* next to a task that is still running.
C17_Witness ==
    \E c \in Allocated, d \in Allocated :
        /\ task[c] = "finished"
        /\ c \in s_tasks[c_server[c]]
        /\ d \in s_tasks[c_server[c]]
        /\ task[d] = "recv"

\* C18 as stated: once stop() has returned (the server is stopped and no
\* close() task of stop() is left), the pair of every connection that connect
\* made to the server is closed.
C18_StopReachesClients ==
    \A c \in Allocated :
        (/\ c_kind[c] = "task"
         /\ s_closed[c_server[c]]
         /\ gather[c_server[c]] = {}) => closed[c]

Range(q) == {q[i] : i \in 1..Len(q)}

\* The messages that are or have been anywhere on connection d.
SeenOn(d) ==
    Range(q1[d]) \cup Range(q2[d]) \cup Range(rcvd_s[d]) \cup Range(rcvd_c[d])
        \cup Range(sent_s[d])

\* A step of connection c: a send, recv or close on its client channel, a
\* Client.close(), a close() of stop() on its server channel, or a step of
\* its handler (which calls recv and send on the server channel).
ConnStep(c) ==
    \/ client_send(c, nsent(nconns) + 1)
    \/ client_recv(c)
    \/ client_recv_resume(c)
    \/ CloseStep(c)
    \/ client_close(c)
    \/ TaskStep(c)

\* C19: connections are isolated.  A message the client of one connection
\* sent never appears in a queue of another connection nor among what either
\* side of another connection has received or sent.  A step of one
\* connection leaves the queues and the flag of every other connection
\* unchanged.  Within a connection, a send on the client channel does not
\* touch the client's own inbound queue; what a client recv() returns is the
\* head of that inbound queue, which grows only by a send on the server
\* channel; and likewise what the handler receives comes from its own inbound
\* queue, which grows only by a send on the client channel.
C19_Isolation ==
    /\ [](\A c \in Allocated, d \in Allocated :
            c # d => Range(sent_c[c]) \cap SeenOn(d) = {})
    /\ [][\A c \in Conns :
            /\ ConnStep(c) =>
                  \A d \in Conns \ {c} :
                     q1'[d] = q1[d] /\ q2'[d] = q2[d] /\ closed'[d] = closed[d]
            /\ sent_c'[c] # sent_c[c] =>
                  /\ q1'[c] = q1[c]
                  /\ rcvd_c'[c] = rcvd_c[c]
                  /\ q2'[c] = Append(q2[c], sent_c'[c][Len(sent_c'[c])])
            /\ rcvd_c'[c] # rcvd_c[c] =>
                  /\ q1[c] # <<>>
                  /\ rcvd_c'[c] = Append(rcvd_c[c], Head(q1[c]))
                  /\ q1'[c] = Tail(q1[c])
                  /\ q2'[c] = q2[c]
            /\ Len(q1'[c]) > Len(q1[c]) => sent_s'[c] # sent_s[c]
            /\ Len(q2'[c]) > Len(q2[c]) => sent_c'[c] # sent_c[c]
            /\ rcvd_s'[c] # rcvd_s[c] =>
                  rcvd_s'[c] \o q2'[c] = rcvd_s[c] \o q2[c]]_vars

\* Two connections to one server: on the first a message has made the round
\* trip; on the second both sides are suspended in recv() and nothing has
\* arrived.
C19_Witness ==
    \E c \in Allocated, d \in Allocated :
        /\ c # d
        /\ c_server[c] = c_server[d]
        /\ rcvd_c[c] # <<>>
        /\ task[d] = "recv"
        /\ reader[d] = "waiting"
        /\ SeenOn(d) = {}

\* The accept task of connection c has been told to end: its server is
\* stopped, or its client has called Client.close().
ShutDown(c) == c \in Allocated /\ c_kind[c] = "task"
                 /\ (s_closed[c_server[c]] \/ ClientClosed(c))

\* C20: no accept task outlives shutdown.  No step adds a task to the task
\* set of a stopped server, so once empty the set stays empty.  An accept task
\* whose server is stopped or whose client has closed has completed or has
\* its cancellation pending, also when its handler is suspended in recv() on
\* an empty queue; while it has not completed its next step is ready whenever
\* the event loop is free to take it, and that step ends it; once it has
\* completed, the callback that removes it from the task set is ready in the
\* same way, and that callback removes it.  The event loop runs every ready
\* task and callback, so the task completes and leaves the set.
C20_NoTaskOutlivesShutdown ==
    /\ [](\A c \in Allocated :
            ShutDown(c) =>
               /\ done(c) \/ must_cancel[c]
               /\ (Quiet /\ ~done(c)) => ENABLED TaskStep(c)
               /\ (Quiet /\ done(c) /\ c \in s_tasks[c_server[c]]) => ENABLED discard(c))
    /\ [][/\ \A s \in Servers : s_closed[s] => s_tasks'[s] \subseteq s_tasks[s]
          /\ \A c \in Conns :
                /\ (ShutDown(c) /\ TaskStep(c)) => task'[c] = "cancelled"
                /\ (ShutDown(c) /\ done(c)) => task'[c] = task[c]
                /\ discard(c) => c \notin s_tasks'[c_server[c]]]_vars

\* stop() found a handler suspended in recv() on an empty queue; its task has
\* ended cancelled and has left the task set, which is empty.  The client has
\* not closed.
C20_Witness ==
    \E c \in Allocated :
        /\ s_closed[c_server[c]]
        /\ s_tasks[c_server[c]] = {}
        /\ c_kind[c] = "task"
        /\ client_task[c]
        /\ invoked[c]
        /\ task[c] = "cancelled"
        /\ sent_c[c] = <<>>

====
